---- MODULE Spec2Model ----
(***************************************************************************)
(* The store API of an oklog node (pkg/store/api.go): the request router   *)
(* with its latency interceptor, the query scatter-gather coordinator, the *)
(* two stream writer loops and the replication ingestion transaction.      *)
(*                                                                         *)
(* One request is in flight at a time; the store, the replication counters *)
(* and the latency histogram persist from one request to the next.         *)
(***************************************************************************)
EXTENDS Integers, Sequences, FiniteSets, TLC

\* ---- bounds of the model ------------------------------------------------
MaxReqs == 1      \* requests served in one behaviour
MaxKey == 2       \* record keys are 1..MaxKey
MaxLen == 2       \* records in one replication body
MaxPeers == 2     \* well-formed peer addresses known to the directory
MaxRecords == 2   \* records a stream source offers

\* ---- program constants --------------------------------------------------
APIPathUserQuery == "/query"
APIPathInternalQuery == "/_query"
APIPathUserStream == "/stream"
APIPathInternalStream == "/_stream"
APIPathReplicate == "/replicate"
APIPathClusterState == "/_clusterstate"

StatusOK == 200
StatusTemporaryRedirect == 307
StatusBadRequest == 400
StatusNotFound == 404
StatusPreconditionFailed == 412
StatusInternalServerError == 500
StatusServiceUnavailable == 503

VARIABLES
    pc,                  \* position of the request in flight
    req,                 \* the request: method, URL path, parameters, body
    w,                   \* the response writer the handler writes to
    store,               \* the local store's segments, in creation order
    replicatedSegments,  \* counter "segments replicated"
    replicatedBytes,     \* counter "bytes replicated"
    duration,            \* the latency histogram: one entry per observation
    rep,                 \* locals of handleReplicate
    uq,                  \* locals and tasks of handleUserQuery
    st,                  \* locals, channel and context of a stream handler
    nreq                 \* requests accepted so far

vars == <<pc, req, w, store, replicatedSegments, replicatedBytes, duration,
          rep, uq, st, nreq>>

\* ---- small helpers ------------------------------------------------------
Min(S) == CHOOSE x \in S : \A y \in S : x <= y
Max(S) == CHOOSE x \in S : \A y \in S : x >= y
Range(s) == {s[i] : i \in 1..Len(s)}
SeqsUpTo(S, n) == UNION {[1..k -> S] : k \in 0..n}

Keys == 1..MaxKey
Methods == {"GET", "HEAD", "POST"}
Paths == {"/", APIPathUserQuery, APIPathInternalQuery, APIPathUserStream,
          APIPathInternalStream, APIPathReplicate, APIPathClusterState,
          "/other"}

\* ---- what is written to a connection ------------------------------------
\* Every payload has the same shape, so that any two can be compared.
Text(s) == [kind |-> "text", text |-> s, key |-> 0, errs |-> 0, merged |-> <<>>]
RecordLine(k) == [kind |-> "record", text |-> "\n", key |-> k, errs |-> 0, merged |-> <<>>]
ResultBody(r) == [kind |-> "result", text |-> "", key |-> 0,
                  errs |-> r.ErrorCount, merged |-> r.merged]

\* ---- the response writer ------------------------------------------------
\* w.kind    "interceptingWriter" (installed by ServeHTTP) or "raw"
\* w.code    interceptingWriter.code
\* w.flusher the underlying connection's writer implements http.Flusher
\* w.status  the status line sent on the connection, 0 while none is sent
\* w.out     what was written and flushed, in order
ResponseWriterMethods == {"Header", "Write", "WriteHeader"}

\* The underlying http.ResponseWriter: the first WriteHeader fixes the status.
UnderlyingWriteHeader(wr, code) ==
    IF wr.status = 0 THEN [wr EXCEPT !.status = code] ELSE wr

\* A mutant of WriteHeader: the interceptor forgets to record the code.
WriteHeaderNoRecord(wr, code) == UnderlyingWriteHeader(wr, code)

WriteHeader(wr, code) ==
    IF wr.kind = "interceptingWriter"
    THEN UnderlyingWriteHeader([wr EXCEPT !.code = code], code)
    ELSE UnderlyingWriteHeader(wr, code)

\* Write is promoted from the embedded ResponseWriter: it sends the status
\* line 200 if none was sent, and never touches interceptingWriter.code.
Write(wr, data) ==
    LET h == UnderlyingWriteHeader(wr, StatusOK)
    IN  [h EXCEPT !.out = Append(@, [op |-> "write", data |-> data])]

Flush(wr) == [wr EXCEPT !.out = Append(@, [op |-> "flush", data |-> Text("")])]

\* http.Error, http.NotFound, http.Redirect
HttpError(wr, msg, code) == Write(WriteHeader(wr, code), Text(msg))
HttpNotFound(wr) == HttpError(wr, "404 page not found", StatusNotFound)
HttpRedirect(wr, url, code) == Write(WriteHeader(wr, code), Text(url))

\* The method set of the value a handler receives. interceptingWriter embeds
\* the interface http.ResponseWriter, so only that interface's methods are
\* promoted, whatever the dynamic type of the embedded value.
MethodSet(wr) ==
    IF wr.kind = "interceptingWriter"
    THEN ResponseWriterMethods
    ELSE IF wr.flusher THEN ResponseWriterMethods \cup {"Flush"}
                       ELSE ResponseWriterMethods

\* flusher, ok := w.(http.Flusher)
IsFlusher(wr) == "Flush" \in MethodSet(wr)

\* The status the client receives: net/http sends 200 when the handler
\* returns without having sent a status line.
FinalStatus(wr) == IF wr.status = 0 THEN StatusOK ELSE wr.status

NewWriter(kind, flusher) ==
    [kind |-> kind, code |-> StatusOK, flusher |-> flusher, status |-> 0, out |-> <<>>]

\* ---- the local store (external collaborator) ----------------------------
OpenSegment == [state |-> "Open", recs |-> <<>>, low |-> 0, high |-> 0]

LogCreate(s) == Append(s, OpenSegment)

SegmentAppend(s, i, records) == [s EXCEPT ![i].recs = @ \o records]

SegmentClose(s, i, low, high) ==
    [s EXCEPT ![i].state = "Committed", ![i].low = low, ![i].high = high]

SegmentDelete(s, i) == [s EXCEPT ![i].state = "Deleted", ![i].recs = <<>>]

Committed(s) == {i \in 1..Len(s) : s[i].state = "Committed"}

\* mergeRecords(segment, body): decode and append the records of the body in
\* order, tracking the least and greatest key and the count; fail = 0 is a
\* body that decodes to its end, fail = j an error met at the j-th read,
\* after j-1 records were appended.
MergeConsumed(body, fail) == IF fail = 0 THEN body ELSE SubSeq(body, 1, fail - 1)

mergeRecords(body, fail) ==
    LET done == MergeConsumed(body, fail)
    IN  [low  |-> IF done = <<>> THEN 0 ELSE Min(Range(done)),
         high |-> IF done = <<>> THEN 0 ELSE Max(Range(done)),
         n    |-> Len(done),
         err  |-> fail # 0]

\* ---- initial state ------------------------------------------------------
NoReq == [method |-> "", path |-> "", arrived |-> "", paramsOK |-> TRUE,
          entry |-> "", handler |-> "", statsOnly |-> FALSE]
NoRep == [segment |-> 0, body |-> <<>>, fail |-> 0, low |-> 0, high |-> 0,
          n |-> 0, calls |-> <<>>, preSegments |-> 0, preBytes |-> 0,
          preStore |-> <<>>, outcome |-> "", closeErr |-> FALSE]
NoResult == [ErrorCount |-> 0, merged |-> <<>>]
NoUq == [members |-> <<>>, requests |-> <<>>, cap |-> 0, task |-> <<>>,
         got |-> <<>>, c |-> <<>>, responses |-> <<>>, result |-> NoResult,
         outcome |-> "", ctxDone |-> FALSE]
NoSt == [ctxDone |-> FALSE, src |-> <<>>, offered |-> FALSE, taken |-> <<>>,
         urls |-> <<>>, exec |-> "none"]

\* The log handed to NewAPI is empty or holds a segment committed earlier.
InitialStores ==
    {<<>>, <<[state |-> "Committed", recs |-> <<1>>, low |-> 1, high |-> 1]>>}

Init ==
    /\ pc = "idle"
    /\ req = NoReq
    /\ w = NewWriter("raw", FALSE)
    /\ store \in InitialStores
    /\ replicatedSegments = 0
    /\ replicatedBytes = 0
    /\ duration = <<>>
    /\ rep = NoRep
    /\ uq = NoUq
    /\ st = NoSt
    /\ nreq = 0

\* ---- ServeHTTP ----------------------------------------------------------
\* A mutant of Route: the switch looks at the path alone.
RouteIgnoringMethod(method, path) ==
    CASE path = "/" -> "redirect"
      [] path = APIPathUserQuery -> "handleUserQuery"
      [] path = APIPathInternalQuery -> "handleInternalQuery"
      [] path = APIPathUserStream -> "handleUserStream"
      [] path = APIPathInternalStream -> "handleInternalStream"
      [] path = APIPathReplicate -> "handleReplicate"
      [] path = APIPathClusterState -> "handleClusterState"
      [] OTHER -> "notfound"

\* The handler the switch selects; "redirect" and "notfound" are the two
\* cases that answer in place.
Route(method, path) ==
    CASE method = "GET" /\ path = "/" -> "redirect"
      [] method = "GET" /\ path = APIPathUserQuery -> "handleUserQuery"
      [] method = "HEAD" /\ path = APIPathUserQuery -> "handleUserQuery"
      [] method = "GET" /\ path = APIPathInternalQuery -> "handleInternalQuery"
      [] method = "HEAD" /\ path = APIPathInternalQuery -> "handleInternalQuery"
      [] method = "GET" /\ path = APIPathUserStream -> "handleUserStream"
      [] method = "GET" /\ path = APIPathInternalStream -> "handleInternalStream"
      [] method = "POST" /\ path = APIPathReplicate -> "handleReplicate"
      [] method = "GET" /\ path = APIPathClusterState -> "handleClusterState"
      [] OTHER -> "notfound"

StatsOnly(method) == method = "HEAD"

\* The inputs a handler reads: only four handlers parse the query string,
\* and only the stream handlers ask the writer for http.Flusher. For the
\* other routes one value stands for all.
ParamChoices(h) ==
    IF h \in {"handleUserQuery", "handleInternalQuery", "handleUserStream",
              "handleInternalStream"} THEN BOOLEAN ELSE {TRUE}
FlusherChoices(h) ==
    IF h \in {"handleUserStream", "handleInternalStream"} THEN BOOLEAN ELSE {TRUE}

\* The model follows one request at a time together with the tasks it
\* started: the next request is taken up when the task feeding the previous
\* stream, if any, has ended.
Quiescent == st.exec # "running"

\* A request arrives: the interceptor is installed and the switch runs.
ServeHTTP ==
    /\ pc = "idle"
    /\ nreq < MaxReqs
    /\ Quiescent
    /\ \E method \in Methods, path \in Paths :
        \E ok \in ParamChoices(Route(method, path)),
           fl \in FlusherChoices(Route(method, path)) :
        LET h == Route(method, path)
            iw == NewWriter("interceptingWriter", fl)
        IN  /\ req' = [method |-> method,
                       path |-> IF h = "redirect" THEN APIPathUserQuery ELSE path,
                       arrived |-> path, paramsOK |-> ok,
                       entry |-> "ServeHTTP", handler |-> h,
                       statsOnly |-> IF h \in {"handleUserQuery", "handleInternalQuery"}
                                     THEN StatsOnly(method) ELSE FALSE]
            /\ w' = CASE h = "redirect" ->
                           HttpRedirect(iw, APIPathUserQuery, StatusTemporaryRedirect)
                      [] h = "notfound" -> HttpNotFound(iw)
                      [] OTHER -> iw
            /\ pc' = IF h \in {"redirect", "notfound"} THEN "ret" ELSE h
    /\ nreq' = nreq + 1
    /\ rep' = NoRep
    /\ uq' = NoUq
    /\ st' = NoSt
    /\ UNCHANGED <<store, replicatedSegments, replicatedBytes, duration>>

\* The deferred function of ServeHTTP: one observation when the handler has
\* returned, labelled with r.Method, r.URL.Path and iw.code as they are then.
ServeHTTPDeferred ==
    /\ pc = "ret"
    /\ req.entry = "ServeHTTP"
    /\ duration' = Append(duration,
                          [method |-> req.method, path |-> req.path, code |-> w.code])
    /\ pc' = "idle"
    /\ UNCHANGED <<req, w, store, replicatedSegments, replicatedBytes, rep, uq, st, nreq>>

\* ---- handleInternalQuery ------------------------------------------------
handleInternalQuery ==
    /\ pc = "handleInternalQuery"
    /\ \E queryOK \in BOOLEAN :
        w' = IF ~req.paramsOK THEN HttpError(w, "bad params", StatusBadRequest)
             ELSE IF ~queryOK THEN HttpError(w, "query failed", StatusInternalServerError)
             ELSE Write(w, ResultBody(NoResult))
    /\ pc' = "ret"
    /\ UNCHANGED <<req, store, replicatedSegments, replicatedBytes, duration, rep, uq, st, nreq>>

\* ---- handleClusterState -------------------------------------------------
handleClusterState ==
    /\ pc = "handleClusterState"
    /\ \E marshalOK \in BOOLEAN :
        w' = IF ~marshalOK THEN HttpError(w, "marshal failed", StatusInternalServerError)
             ELSE Write(w, Text("state"))
    /\ pc' = "ret"
    /\ UNCHANGED <<req, store, replicatedSegments, replicatedBytes, duration, rep, uq, st, nreq>>

\* ---- handleReplicate ----------------------------------------------------
\* segment, err := a.log.Create()
ReplicateCreate ==
    /\ pc = "handleReplicate"
    /\ \E createOK \in BOOLEAN :
        LET pre == [NoRep EXCEPT !.preSegments = replicatedSegments,
                                 !.preBytes = replicatedBytes,
                                 !.preStore = store]
        IN  IF createOK
            THEN /\ store' = LogCreate(store)
                 /\ rep' = [pre EXCEPT !.segment = Len(store) + 1,
                                       !.calls = <<"Create">>]
                 /\ w' = w
                 /\ pc' = "replicateMerge"
            ELSE /\ store' = store
                 /\ rep' = [pre EXCEPT !.outcome = "createFailed"]
                 /\ w' = HttpError(w, "create failed", StatusInternalServerError)
                 /\ pc' = "ret"
    /\ UNCHANGED <<req, replicatedSegments, replicatedBytes, duration, uq, st, nreq>>

\* The branch taken after mergeRecords returned (lines 302-310).
\* A mutant: a failed merge that appended records goes on to commit.
AfterMergeCommitsPartial(err, n) ==
    IF n = 0 THEN (IF err THEN "fail" ELSE "empty") ELSE "commit"

\* A mutant: the n == 0 test is missing.
AfterMergeNoEmptyCase(err, n) == IF err THEN "fail" ELSE "commit"

AfterMerge(err, n) ==
    IF err THEN "fail" ELSE IF n = 0 THEN "empty" ELSE "commit"

\* low, high, n, err := mergeRecords(segment, r.Body), and the two discards
ReplicateMerge ==
    /\ pc = "replicateMerge"
    /\ \E body \in SeqsUpTo(Keys, MaxLen) : \E fail \in 0..(Len(body) + 1) :
       LET m == mergeRecords(body, fail)
           filled == SegmentAppend(store, rep.segment, MergeConsumed(body, fail))
           got == [rep EXCEPT !.body = body, !.fail = fail,
                              !.low = m.low, !.high = m.high, !.n = m.n]
           branch == AfterMerge(m.err, m.n)
       IN  CASE branch = "fail" ->
                  /\ store' = SegmentDelete(filled, rep.segment)
                  /\ rep' = [got EXCEPT !.calls = Append(@, "Delete"),
                                        !.outcome = "mergeFailed"]
                  /\ w' = HttpError(w, "merge failed", StatusInternalServerError)
                  /\ pc' = "ret"
             [] branch = "empty" ->
                  /\ store' = SegmentDelete(filled, rep.segment)
                  /\ rep' = [got EXCEPT !.calls = Append(@, "Delete"),
                                        !.outcome = "empty"]
                  /\ w' = Write(w, Text("No records"))
                  /\ pc' = "ret"
             [] OTHER ->
                  /\ store' = filled
                  /\ rep' = got
                  /\ w' = w
                  /\ pc' = "replicateClose"
    /\ UNCHANGED <<req, replicatedSegments, replicatedBytes, duration, uq, st, nreq>>

\* The arguments handleReplicate passes to Close (line 311).
\* A mutant: the watermarks are passed in the wrong order.
CloseArgsSwapped(low, high) == <<high, low>>

CloseArgs(low, high) == <<low, high>>

\* Line 311: if err := segment.Close(low, high); err != nil
\* A mutant: the error of Close is not looked at.
CloseErrorIgnored(closeOK) == FALSE

CloseFailed(closeOK) == ~closeOK

\* segment.Close(low, high), the counters and the answer. The store commits
\* the segment or fails and leaves it as it was; the handler goes by the
\* error it is returned.
ReplicateClose ==
    /\ pc = "replicateClose"
    /\ \E closeOK \in BOOLEAN :
        LET args == CloseArgs(rep.low, rep.high)
            called == [rep EXCEPT !.calls = Append(@, "Close"), !.closeErr = ~closeOK]
        IN  /\ store' = IF closeOK
                        THEN SegmentClose(store, rep.segment, args[1], args[2])
                        ELSE store
            /\ IF CloseFailed(closeOK)
               THEN /\ UNCHANGED <<replicatedSegments, replicatedBytes>>
                    /\ rep' = [called EXCEPT !.outcome = "closeFailed"]
                    /\ w' = HttpError(w, "close failed", StatusInternalServerError)
               ELSE /\ replicatedSegments' = replicatedSegments + 1
                    /\ replicatedBytes' = replicatedBytes + rep.n
                    /\ rep' = [called EXCEPT !.outcome = "committed"]
                    /\ w' = Write(w, Text("OK"))
    /\ pc' = "ret"
    /\ UNCHANGED <<req, duration, uq, st, nreq>>

\* ---- handleUserQuery ----------------------------------------------------
\* The peer directory knows the well-formed addresses 1..MaxPeers and one
\* address, MaxPeers + 1, that url.Parse rejects; a snapshot is any subset
\* of them, listed in ascending order.
Hostports == 1..(MaxPeers + 1)
UrlParseOK(hostport) == hostport <= MaxPeers

RECURSIVE Ascending(_)
Ascending(S) == IF S = {} THEN <<>> ELSE <<Min(S)>> \o Ascending(S \ {Min(S)})

Snapshots == {Ascending(S) : S \in SUBSET Hostports}

\* A query string is a sequence of <<key, value>> pairs, url.Values a
\* function from keys to values.

\* url.ParseQuery: the first value of every key of the query string.
ParseQuery(rawQuery) ==
    [k \in {rawQuery[i][1] : i \in 1..Len(rawQuery)} |->
        rawQuery[Min({i \in 1..Len(rawQuery) : rawQuery[i][1] = k})][2]]

\* QueryParams: MakeQueryParams reads its fields from the values, a missing
\* key giving the zero value; EncodeTo sets them in the values it is given.
MakeQueryParams(values) ==
    [from |-> IF "from" \in DOMAIN values THEN values["from"] ELSE "",
     q    |-> IF "q" \in DOMAIN values THEN values["q"] ELSE ""]
EncodeTo(query, values) ==
    [k \in DOMAIN values \cup {"from", "q"} |->
        IF k = "from" THEN query.from ELSE IF k = "q" THEN query.q ELSE values[k]]

\* The query string of a client request whose parameters are valid, and the
\* QueryParams lines 120, 201, 217 and 264 make of it.
ClientRawQuery == <<<<"from", "t0">>, <<"q", "a">>>>
ClientParams == MakeQueryParams(ParseQuery(ClientRawQuery))

\* URL.Query(): a map parsed afresh from u.RawQuery at every call.
UrlQuery(u) == ParseQuery(u.rawQuery)

\* Lines 133-139 and 234-238: url.Parse of "http://<hostport>/store<path>",
\* then query.EncodeTo(u.Query()). EncodeTo fills the map u.Query() returned
\* and that map is dropped; u.RawQuery is never assigned, so the URL that
\* u.String() gives has the query string url.Parse found: none.
InternalURL(hostport, path, query) ==
    LET u == [hostport |-> hostport, path |-> path, rawQuery |-> <<>>]
        dropped == EncodeTo(query, UrlQuery(u))
    IN  u

\* The request built for one peer (lines 133-146).
InternalRequest(hostport, method) ==
    LET u == InternalURL(hostport, APIPathInternalQuery, ClientParams)
    IN  [hostport |-> u.hostport, method |-> method, path |-> u.path,
         rawQuery |-> u.rawQuery]

\* Lines 233-240: the URL readerFactory gives stream.Execute for a peer.
readerFactory(addr) == InternalURL(addr, APIPathInternalStream, ClientParams)

\* The requests built by the loop of lines 131-147 until a URL fails.
RECURSIVE BuildRequests(_, _)
BuildRequests(members, method) ==
    IF members = <<>> \/ ~UrlParseOK(Head(members)) THEN <<>>
    ELSE <<InternalRequest(Head(members), method)>> \o BuildRequests(Tail(members), method)

\* Line 114: if len(members) <= 0
\* A mutant: the comparison is strict, so an empty snapshot passes.
NoMembersStrict(members) == Len(members) < 0

NoMembers(members) == Len(members) <= 0

\* Lines 113-147: the snapshot, the parameters, the requests.
UserQueryStart ==
    /\ pc = "handleUserQuery"
    /\ \E members \in Snapshots :
        LET method == IF req.statsOnly THEN "HEAD" ELSE "GET"
            built == BuildRequests(members, method)
        IN  IF NoMembers(members)
            THEN /\ w' = HttpError(w, "no store nodes available", StatusServiceUnavailable)
                 /\ uq' = [NoUq EXCEPT !.members = members, !.outcome = "unavailable"]
                 /\ pc' = "ret"
            ELSE IF ~req.paramsOK
            THEN /\ w' = HttpError(w, "bad params", StatusBadRequest)
                 /\ uq' = [NoUq EXCEPT !.members = members, !.outcome = "badParams"]
                 /\ pc' = "ret"
            ELSE IF Len(built) < Len(members)
            THEN /\ w' = HttpError(w, "constructing URL", StatusInternalServerError)
                 /\ uq' = [NoUq EXCEPT !.members = members, !.requests = built,
                                       !.outcome = "badURL"]
                 /\ pc' = "ret"
            ELSE /\ w' = w
                 /\ uq' = [NoUq EXCEPT !.members = members, !.requests = built]
                 /\ pc' = "uqSpawn"
    /\ UNCHANGED <<req, store, replicatedSegments, replicatedBytes, duration, rep, st, nreq>>

\* Line 153: c := make(chan response, len(requests))
\* A mutant: the collector is made without a buffer.
CollectorUnbuffered(requests) == 0

CollectorCap(requests) == Len(requests)

NoOutcome == [kind |-> "none", from |-> 0, params |-> ""]

\* Lines 153-160: the collector, then one goroutine per request, started one
\* after the other; a goroutine runs as soon as it is started. After the last
\* one the receive loop of line 163 begins, which runs cap(c) times.
UserQuerySpawn ==
    /\ pc = "uqSpawn"
    /\ LET cap == CollectorCap(uq.requests)
           last == Len(uq.task) + 1 >= Len(uq.requests)
       IN  /\ uq' = IF Len(uq.task) < Len(uq.requests)
                    THEN [uq EXCEPT !.cap = cap,
                                    !.task = Append(@, "running"),
                                    !.got = Append(@, NoOutcome)]
                    ELSE [uq EXCEPT !.cap = cap]
           /\ pc' = IF ~last THEN "uqSpawn"
                    ELSE IF cap = 0 THEN "uqProcess" ELSE "uqGather"
    /\ UNCHANGED <<req, w, store, replicatedSegments, replicatedBytes, duration, rep, st, nreq>>

\* What http.DefaultClient.Do can return for a request: a transport error, a
\* response with a status other than 200, or a 200 whose body decodes to a
\* partial result with the query's parameters or with other ones.
DoOutcomes(r) ==
    {[kind |-> "err", from |-> r.hostport, params |-> ""],
     [kind |-> "status", from |-> r.hostport, params |-> ""],
     [kind |-> "ok", from |-> r.hostport, params |-> "same"],
     [kind |-> "ok", from |-> r.hostport, params |-> "other"]}

\* Line 157: resp, err := http.DefaultClient.Do(req)
TaskDo(i) ==
    /\ i \in 1..Len(uq.task)
    /\ uq.task[i] = "running"
    /\ \E o \in DoOutcomes(uq.requests[i]) :
        uq' = [uq EXCEPT !.task[i] = "deliver", !.got[i] = o]
    /\ UNCHANGED <<pc, req, w, store, replicatedSegments, replicatedBytes, duration, rep, st, nreq>>

\* Line 158: c <- response{resp, err}; a send blocks while the buffer is full.
TaskDeliver(i) ==
    /\ i \in 1..Len(uq.task)
    /\ uq.task[i] = "deliver"
    /\ Len(uq.c) < uq.cap
    /\ uq' = [uq EXCEPT !.task[i] = "finished", !.c = Append(@, uq.got[i])]
    /\ UNCHANGED <<pc, req, w, store, replicatedSegments, replicatedBytes, duration, rep, st, nreq>>

\* The client of a query goes away or its deadline passes: r.Context() is
\* cancelled. The requests of line 140 are built by http.NewRequest and
\* sent by http.DefaultClient, neither of which is given that context, and
\* the receive of line 164 waits on the collector alone.
QueryContextCancel ==
    /\ pc = "uqGather"
    /\ ~uq.ctxDone
    /\ uq' = [uq EXCEPT !.ctxDone = TRUE]
    /\ UNCHANGED <<pc, req, w, store, replicatedSegments, replicatedBytes, duration,
                   rep, st, nreq>>

\* Lines 162-165: responses[i] = <-c, cap(c) times.
UserQueryGather ==
    /\ pc = "uqGather"
    /\ Len(uq.responses) < uq.cap
    /\ uq.c # <<>>
    /\ uq' = [uq EXCEPT !.responses = Append(@, Head(uq.c)), !.c = Tail(@)]
    /\ pc' = IF Len(uq.responses) + 1 = uq.cap THEN "uqProcess" ELSE "uqGather"
    /\ UNCHANGED <<req, w, store, replicatedSegments, replicatedBytes, duration, rep, st, nreq>>

\* QueryResult.Merge: folds a partial result into the aggregate; it fails on
\* a partial result whose parameters differ from the aggregate's.
MergeOK(partial) == partial.params = "same"
Merge(result, partial) == [result EXCEPT !.merged = Append(@, partial.from)]

\* Lines 172 and 185: result.ErrorCount++
\* A mutant: a failed peer is dropped without being counted.
CountErrorDropped(result) == result

CountError(result) == [result EXCEPT !.ErrorCount = @ + 1]

\* Lines 169-195: the loop over the responses, in arrival order. It yields
\* the aggregate and whether a Merge failed, which ends the loop.
RECURSIVE ProcessResponses(_, _)
ProcessResponses(responses, result) ==
    IF responses = <<>> THEN [result |-> result, failed |-> FALSE]
    ELSE LET r == Head(responses)
         IN  IF r.kind = "err" THEN ProcessResponses(Tail(responses), CountError(result))
             ELSE IF r.kind = "status"
                  THEN ProcessResponses(Tail(responses), CountError(result))
             ELSE IF ~MergeOK(r) THEN [result |-> result, failed |-> TRUE]
             ELSE ProcessResponses(Tail(responses), Merge(result, r))

\* Lines 166-198: the aggregate is built and encoded, or a Merge failure is
\* answered with 500.
UserQueryFinish ==
    /\ pc = "uqProcess"
    /\ LET p == ProcessResponses(uq.responses, NoResult)
       IN  /\ uq' = [uq EXCEPT !.result = p.result,
                               !.outcome = IF p.failed THEN "mergeFailed" ELSE "encoded"]
           /\ w' = IF p.failed
                   THEN HttpError(w, "merging results", StatusInternalServerError)
                   ELSE Write(w, ResultBody(p.result))
    /\ pc' = "ret"
    /\ UNCHANGED <<req, store, replicatedSegments, replicatedBytes, duration, rep, st, nreq>>

\* ---- handleUserStream and handleInternalStream --------------------------
StreamHandlers == {"handleUserStream", "handleInternalStream"}

\* A handler is called with the writer it is given, as any caller inside the
\* package may: here with the connection's own writer, not wrapped.
CallStreamHandler ==
    /\ pc = "idle"
    /\ nreq < MaxReqs
    /\ Quiescent
    /\ \E h \in StreamHandlers, ok \in BOOLEAN, fl \in BOOLEAN :
        /\ req' = [method |-> "GET",
                   path |-> IF h = "handleUserStream" THEN APIPathUserStream
                                                      ELSE APIPathInternalStream,
                   arrived |-> IF h = "handleUserStream" THEN APIPathUserStream
                                                         ELSE APIPathInternalStream,
                   paramsOK |-> ok, entry |-> "direct", handler |-> h,
                   statsOnly |-> FALSE]
        /\ w' = NewWriter("raw", fl)
        /\ pc' = h
    /\ nreq' = nreq + 1
    /\ rep' = NoRep
    /\ uq' = NoUq
    /\ st' = NoSt
    /\ UNCHANGED <<store, replicatedSegments, replicatedBytes, duration>>

\* A handler called directly returns to its caller; nothing is observed.
DirectReturn ==
    /\ pc = "ret"
    /\ req.entry = "direct"
    /\ pc' = "idle"
    /\ UNCHANGED <<req, w, store, replicatedSegments, replicatedBytes, duration,
                   rep, uq, st, nreq>>

\* The URLs stream.Execute is given for the peers it opens a sub-stream to:
\* it asks readerFactory for every well-formed address of the directory.
\* handleInternalStream reads the local log and builds no URL.
SubStreamURLs(h) ==
    IF h = "handleUserStream" THEN [a \in 1..MaxPeers |-> readerFactory(a)] ELSE <<>>

\* Lines 217-250 and 264-280: the parameters, the type assertion, and the
\* records channel with whatever feeds it (stream.Execute or log.Stream).
StreamStart ==
    /\ pc \in StreamHandlers
    /\ IF ~req.paramsOK
       THEN /\ w' = HttpError(w, "bad params", StatusBadRequest)
            /\ st' = st
            /\ pc' = "ret"
       ELSE IF ~IsFlusher(w)
       THEN /\ w' = HttpError(w, "can't stream to your client", StatusPreconditionFailed)
            /\ st' = st
            /\ pc' = "ret"
       ELSE /\ w' = w
            /\ \E src \in SeqsUpTo(Keys, MaxRecords) :
                st' = [NoSt EXCEPT !.src = src, !.urls = SubStreamURLs(req.handler),
                                   !.exec = "running"]
            /\ pc' = "streamLoop"
    /\ UNCHANGED <<req, store, replicatedSegments, replicatedBytes, duration, rep, uq, nreq>>

\* The feeding task reaches its send on the unbuffered records channel.
ProducerOffer ==
    /\ pc = "streamLoop"
    /\ st.exec = "running"
    /\ ~st.ctxDone
    /\ ~st.offered
    /\ st.src # <<>>
    /\ st' = [st EXCEPT !.offered = TRUE]
    /\ UNCHANGED <<pc, req, w, store, replicatedSegments, replicatedBytes, duration,
                   rep, uq, nreq>>

\* The client goes away: r.Context() is cancelled.
ContextCancel ==
    /\ pc = "streamLoop"
    /\ ~st.ctxDone
    /\ st' = [st EXCEPT !.ctxDone = TRUE]
    /\ UNCHANGED <<pc, req, w, store, replicatedSegments, replicatedBytes, duration,
                   rep, uq, nreq>>

\* Lines 244 and 276: the context the feeding task is started with.
\* A mutant: the task is started with a context of its own, never cancelled.
ExecuteContextBackground(s) == FALSE

ExecuteContext(s) == s.ctxDone

\* The feeding task ends: it watches the context it was given, also while
\* it waits to hand a record over, and closes what it opened.
ProducerStop ==
    /\ st.exec = "running"
    /\ ExecuteContext(st)
    /\ st' = [st EXCEPT !.exec = "stopped", !.offered = FALSE]
    /\ UNCHANGED <<pc, req, w, store, replicatedSegments, replicatedBytes, duration,
                   rep, uq, nreq>>

\* Whether the select may take the record case: a sender is waiting. Go
\* chooses among the ready cases at random, so a cancelled context does not
\* disable this case.
RecordCaseReady(s) == s.offered

\* Lines 255-256 and 288-289: the record and a newline are written, then
\* the connection is flushed.
\* A mutant: the flush is left out.
WriteRecordNoFlush(wr, record) == Write(wr, RecordLine(record))

WriteRecord(wr, record) == Flush(Write(wr, RecordLine(record)))

\* case record := <-records
StreamSelectRecord ==
    /\ pc = "streamLoop"
    /\ RecordCaseReady(st)
    /\ w' = WriteRecord(w, Head(st.src))
    /\ st' = [st EXCEPT !.src = Tail(@), !.offered = FALSE,
                        !.taken = Append(@, Head(st.src))]
    /\ UNCHANGED <<pc, req, store, replicatedSegments, replicatedBytes, duration,
                   rep, uq, nreq>>

\* Whether the select may take the other case: the context is cancelled.
\* A mutant: the case is a default case, always ready.
DoneCaseAlways(s) == TRUE

DoneCaseReady(s) == s.ctxDone

\* case <-r.Context().Done(): return
StreamSelectDone ==
    /\ pc = "streamLoop"
    /\ DoneCaseReady(st)
    /\ pc' = "ret"
    /\ UNCHANGED <<req, w, st, store, replicatedSegments, replicatedBytes, duration,
                   rep, uq, nreq>>

Next ==
    \/ ServeHTTP
    \/ ServeHTTPDeferred
    \/ CallStreamHandler
    \/ DirectReturn
    \/ handleInternalQuery
    \/ handleClusterState
    \/ UserQueryStart
    \/ UserQuerySpawn
    \/ \E i \in 1..MaxPeers : TaskDo(i)
    \/ \E i \in 1..MaxPeers : TaskDeliver(i)
    \/ UserQueryGather
    \/ UserQueryFinish
    \/ StreamStart
    \/ ProducerOffer
    \/ ContextCancel
    \/ ProducerStop
    \/ StreamSelectRecord
    \/ StreamSelectDone
    \/ ReplicateCreate
    \/ ReplicateMerge
    \/ ReplicateClose

Spec == Init /\ [][Next]_vars

\* The node with, in addition, the request context of a user query: it may
\* be cancelled while the query gathers. Spec leaves that context out, as
\* no line of handleUserQuery reads it.
FairNext == Next \/ QueryContextCancel

\* The steps the node takes by itself are taken when they stay possible: the
\* Go scheduler runs a goroutine that can run. Nothing makes a peer answer
\* (TaskDo), a client send a request or go away, or a stream source produce.
FairSpec ==
    /\ Init
    /\ [][FairNext]_vars
    /\ WF_vars(ServeHTTPDeferred)
    /\ WF_vars(DirectReturn)
    /\ WF_vars(UserQueryStart)
    /\ WF_vars(UserQuerySpawn)
    /\ WF_vars(\E i \in 1..MaxPeers : TaskDeliver(i))
    /\ WF_vars(UserQueryGather)
    /\ WF_vars(UserQueryFinish)
    /\ WF_vars(StreamSelectDone)
    /\ WF_vars(ProducerStop)

\* The stream handlers alone, called with a writer that can be flushed, under
\* the same fairness.
StreamNext ==
    \/ CallStreamHandler
    \/ DirectReturn
    \/ StreamStart
    \/ ProducerOffer
    \/ ContextCancel
    \/ ProducerStop
    \/ StreamSelectRecord
    \/ StreamSelectDone

StreamFairSpec ==
    /\ Init
    /\ [][StreamNext]_vars
    /\ WF_vars(DirectReturn)
    /\ WF_vars(StreamSelectDone)
    /\ WF_vars(ProducerStop)

\* ---- the claims ---------------------------------------------------------
Returned(h) == req.handler = h /\ pc \in {"ret", "idle"}
Writes(wr) == {i \in 1..Len(wr.out) : wr.out[i].op = "write"}
Failed(o) == o.kind \in {"err", "status"}

\* C1: after handleReplicate returns, the segment it obtained was never
\* created, is Deleted, or is Committed with n > 0 records; it is never left
\* Open.
C1_NoSegmentLeftOpen ==
    Returned("handleReplicate") =>
        \/ rep.segment = 0
        \/ store[rep.segment].state = "Deleted"
        \/ store[rep.segment].state = "Committed" /\ rep.n > 0

\* C2: when mergeRecords fails, handleReplicate calls Delete and never Close,
\* answers 500, leaves both counters as they were, and the segment is not
\* among the committed ones.
C2_MergeFailureDiscards ==
    (Returned("handleReplicate") /\ rep.segment # 0 /\ rep.fail # 0) =>
        /\ rep.calls = <<"Create", "Delete">>
        /\ FinalStatus(w) = StatusInternalServerError
        /\ replicatedSegments = rep.preSegments
        /\ replicatedBytes = rep.preBytes
        /\ store[rep.segment].state = "Deleted"
        /\ store[rep.segment].recs = <<>>
        /\ Committed(store) = Committed(rep.preStore)

\* A merge that failed after a record had been appended has returned.
C2_Witness ==
    /\ Returned("handleReplicate")
    /\ rep.fail >= 2
    /\ rep.calls = <<"Create", "Delete">>

\* C3: on a successful ingestion of the N >= 1 records of the body, the
\* segment is committed once by Close(low, high) with low the least and high
\* the greatest key of the body, Delete is not called, the segment counter
\* grows by 1 and the byte counter by n, and "OK" is written.
C3_SuccessCommitsWatermarks ==
    (Returned("handleReplicate") /\ rep.outcome = "committed") =>
        /\ rep.calls = <<"Create", "Close">>
        /\ rep.n = Len(rep.body) /\ rep.n >= 1
        /\ store[rep.segment].state = "Committed"
        /\ store[rep.segment].recs = rep.body
        /\ store[rep.segment].low = Min(Range(rep.body))
        /\ store[rep.segment].high = Max(Range(rep.body))
        /\ replicatedSegments = rep.preSegments + 1
        /\ replicatedBytes = rep.preBytes + rep.n
        /\ w.out = <<[op |-> "write", data |-> Text("OK")]>>
        /\ FinalStatus(w) = StatusOK

\* A body of two records with different keys, the greater first, was committed.
C3_Witness ==
    /\ Returned("handleReplicate")
    /\ rep.outcome = "committed"
    /\ Len(rep.body) = 2
    /\ rep.body[1] > rep.body[2]

\* C4: when the body is consumed without error and n = 0, handleReplicate
\* calls Delete and never Close, writes "No records" with status 200, and
\* leaves the committed segments and both counters as they were.
C4_EmptyPushIsInert ==
    (Returned("handleReplicate") /\ rep.segment # 0 /\ rep.fail = 0 /\ rep.n = 0) =>
        /\ rep.calls = <<"Create", "Delete">>
        /\ w.out = <<[op |-> "write", data |-> Text("No records")]>>
        /\ FinalStatus(w) = StatusOK
        /\ w.code = StatusOK
        /\ Committed(store) = Committed(rep.preStore)
        /\ \A i \in Committed(rep.preStore) : store[i] = rep.preStore[i]
        /\ replicatedSegments = rep.preSegments
        /\ replicatedBytes = rep.preBytes

\* An empty push into a store that holds a committed segment has returned.
C4_Witness ==
    /\ Returned("handleReplicate")
    /\ rep.segment # 0 /\ rep.fail = 0 /\ rep.body = <<>>
    /\ Committed(rep.preStore) # {}

\* C5: when all N outcomes of a user query were gathered, K of them failures
\* and the others successes whose merges succeed, the answer is 200 with an
\* aggregate whose ErrorCount is K and into which each of the N-K successful
\* partial results was merged exactly once.
C5_GatherCountsEveryFailure ==
    (/\ Returned("handleUserQuery")
     /\ uq.cap > 0
     /\ \A i \in 1..uq.cap : uq.got[i].kind = "ok" => MergeOK(uq.got[i])) =>
        LET K == Cardinality({i \in 1..uq.cap : Failed(uq.got[i])})
            good == {uq.got[i].from : i \in {j \in 1..uq.cap : uq.got[j].kind = "ok"}}
        IN  /\ Len(uq.responses) = uq.cap
            /\ \A i \in 1..uq.cap : uq.task[i] = "finished"
            /\ uq.result.ErrorCount = K
            /\ Len(uq.result.merged) = uq.cap - K
            /\ Range(uq.result.merged) = good
            /\ FinalStatus(w) = StatusOK
            /\ w.out = <<[op |-> "write", data |-> ResultBody(uq.result)]>>

\* A query over two peers, one failed and one merged, has returned.
C5_Witness ==
    /\ Returned("handleUserQuery")
    /\ uq.cap = 2
    /\ uq.result.ErrorCount = 1
    /\ Len(uq.result.merged) = 1
    /\ uq.outcome = "encoded"

\* C6: with an empty snapshot of the peer directory a user query is answered
\* 503, no internal request is built, no task is started and no result body
\* is written.
C6_EmptyDirectoryRejected ==
    (Returned("handleUserQuery") /\ uq.members = <<>>) =>
        /\ FinalStatus(w) = StatusServiceUnavailable
        /\ uq.requests = <<>>
        /\ uq.task = <<>>
        /\ \A i \in Writes(w) : w.out[i].data.kind # "result"

\* A HEAD query met an empty directory and has returned.
C6_Witness ==
    /\ Returned("handleUserQuery")
    /\ uq.members = <<>>
    /\ req.method = "HEAD"
    /\ req.paramsOK

\* C7: a user query whose parameters fail to parse is answered 400 and
\* starts no task, whatever the peer directory holds.
C7_BadParamsAlways400 ==
    (Returned("handleUserQuery") /\ ~req.paramsOK) =>
        /\ FinalStatus(w) = StatusBadRequest
        /\ uq.task = <<>>

\* C8: a stream request with valid parameters that arrives through ServeHTTP
\* on a connection whose writer can flush is not answered 412.
C8_FlushableIsStreamed ==
    (/\ req.entry = "ServeHTTP"
     /\ req.handler \in StreamHandlers
     /\ req.paramsOK
     /\ w.flusher
     /\ pc \in {"ret", "idle"}) =>
        FinalStatus(w) # StatusPreconditionFailed

\* C9: once the request context of a stream is cancelled, the writer loop
\* writes and flushes nothing more.
C9_NoWriteAfterCancel ==
    [][(pc = "streamLoop" /\ st.ctxDone) => w'.out = w.out]_vars

\* C10: a request handled by ServeHTTP adds one observation to the histogram,
\* at the moment its handler has returned, labelled with the status the
\* client receives; no other step adds or removes an observation.
C10_OneObservationPerRequest ==
    [][IF pc = "ret" /\ req.entry = "ServeHTTP"
       THEN /\ Len(duration') = Len(duration) + 1
            /\ SubSeq(duration', 1, Len(duration)) = duration
            /\ duration'[Len(duration')].code = FinalStatus(w)
            /\ pc' = "idle"
       ELSE duration' = duration]_vars

\* A request answered with an error status has been observed.
C10_Witness ==
    /\ pc = "idle"
    /\ req.entry = "ServeHTTP"
    /\ FinalStatus(w) = StatusNotFound
    /\ duration # <<>>
    /\ duration[Len(duration)].code = StatusNotFound

\* C11: routing is by exact (method, path). Each request runs at most one
\* handler; HEAD selects the query handlers with statsOnly, GET without;
\* GET / is answered by a redirect to /query and runs no handler; any pair
\* outside the table is answered 404, starts no task and creates no segment.
RoutingTable ==
    {<<"GET", APIPathUserQuery, "handleUserQuery">>,
     <<"HEAD", APIPathUserQuery, "handleUserQuery">>,
     <<"GET", APIPathInternalQuery, "handleInternalQuery">>,
     <<"HEAD", APIPathInternalQuery, "handleInternalQuery">>,
     <<"GET", APIPathUserStream, "handleUserStream">>,
     <<"GET", APIPathInternalStream, "handleInternalStream">>,
     <<"POST", APIPathReplicate, "handleReplicate">>,
     <<"GET", APIPathClusterState, "handleClusterState">>}

C11_RoutingIsExact ==
    req.entry = "ServeHTTP" =>
        LET inTable == \E t \in RoutingTable : t[1] = req.method /\ t[2] = req.arrived
            isRoot == req.method = "GET" /\ req.arrived = "/"
        IN  /\ \A t \in RoutingTable :
                (t[1] = req.method /\ t[2] = req.arrived) => req.handler = t[3]
            /\ req.handler \in {"handleUserQuery", "handleInternalQuery"} =>
                (req.statsOnly <=> req.method = "HEAD")
            /\ \A i \in 1..Len(uq.requests) :
                uq.requests[i].method = (IF req.method = "HEAD" THEN "HEAD" ELSE "GET")
            /\ isRoot =>
                /\ req.handler = "redirect"
                /\ FinalStatus(w) = StatusTemporaryRedirect
                /\ w.out = <<[op |-> "write", data |-> Text(APIPathUserQuery)]>>
            /\ (~inTable /\ ~isRoot) =>
                /\ req.handler = "notfound"
                /\ FinalStatus(w) = StatusNotFound
            /\ req.handler # "handleUserQuery" => uq = NoUq
            /\ req.handler # "handleReplicate" => rep = NoRep
            /\ req.handler \notin StreamHandlers => st = NoSt

\* A POST to /query was answered 404 and observed.
C11_Witness ==
    /\ req.entry = "ServeHTTP"
    /\ req.method = "POST" /\ req.arrived = APIPathUserQuery
    /\ pc = "idle"
    /\ FinalStatus(w) = StatusNotFound

\* C12: for a snapshot of N peers exactly N tasks are started before any
\* outcome is received; the collector has capacity N, so a task that has its
\* outcome never finds the collector full; every task delivers one outcome;
\* the responses are processed only once N were received; and when the
\* handler has returned no task is running or waiting to deliver.
C12_GatherRendezvous ==
    req.handler = "handleUserQuery" =>
        LET N == Len(uq.members)
            finished == {i \in 1..Len(uq.task) : uq.task[i] = "finished"}
        IN  /\ Len(uq.task) <= N
            /\ (pc \in {"uqGather", "uqProcess"} \/ uq.responses # <<>>) =>
                   (Len(uq.task) = N /\ uq.cap = N)
            /\ \A i \in 1..Len(uq.task) : uq.task[i] = "deliver" => Len(uq.c) < uq.cap
            /\ Len(uq.c) + Len(uq.responses) = Cardinality(finished)
            /\ (pc = "uqProcess" \/ uq.outcome \in {"encoded", "mergeFailed"}) =>
                   (Len(uq.responses) = N /\ uq.c = <<>>)
            /\ pc \in {"ret", "idle"} =>
                   \A i \in 1..Len(uq.task) : uq.task[i] = "finished"

\* Both tasks of a query over two peers have delivered before the first
\* receive.
C12_Witness ==
    /\ req.handler = "handleUserQuery"
    /\ pc = "uqGather"
    /\ Len(uq.members) = 2
    /\ Len(uq.c) = 2
    /\ uq.responses = <<>>

\* C13 as stated: over a non-empty directory and with valid parameters, a
\* Merge failure is answered 500, stops the processing and emits no result
\* body; and if no Merge fails the answer is never an error status.
BadMerges == {i \in 1..Len(uq.responses) :
                uq.responses[i].kind = "ok" /\ ~MergeOK(uq.responses[i])}
MergeFailureAborts ==
    BadMerges # {} =>
        /\ FinalStatus(w) = StatusInternalServerError
        /\ \A i \in Writes(w) : w.out[i].data.kind # "result"
        /\ uq.result.ErrorCount + Len(uq.result.merged) = Min(BadMerges) - 1
QueryRan == Returned("handleUserQuery") /\ uq.members # <<>> /\ req.paramsOK

C13_MergeFailureOnlyFatalPath ==
    QueryRan =>
        /\ MergeFailureAborts
        /\ BadMerges = {} => FinalStatus(w) < StatusBadRequest

\* What does hold of the converse: when the request of every peer of the
\* snapshot could be built and no Merge fails the answer is 200, and an
\* address url.Parse rejects is answered 500 before any task is started.
MergeFailureFatalWhenRequestsBuilt ==
    QueryRan =>
        LET built == \A i \in 1..Len(uq.members) : UrlParseOK(uq.members[i])
        IN  /\ MergeFailureAborts
            /\ (BadMerges = {} /\ built) => FinalStatus(w) = StatusOK
            /\ ~built => (FinalStatus(w) = StatusInternalServerError /\ uq.task = <<>>)

\* C14: once the context of a user query is cancelled, the query returns,
\* whether or not the peers still pending ever answer.
C14_CancelEndsQuery ==
    (req.handler = "handleUserQuery" /\ uq.ctxDone) ~> (pc \in {"ret", "idle"})

\* C15: the peer that decodes the query string of an internal request, be
\* it a /_query request or a /_stream URL, obtains the client's parameters.
C15_InternalRequestsCarryParams ==
    /\ \A i \in 1..Len(uq.requests) :
        MakeQueryParams(ParseQuery(uq.requests[i].rawQuery)) = ClientParams
    /\ \A i \in 1..Len(st.urls) :
        MakeQueryParams(ParseQuery(st.urls[i].rawQuery)) = ClientParams

\* C16: when records were appended and Close(low, high) fails,
\* handleReplicate answers 500 and does not write "OK", leaves both counters
\* as they were, has called Close once and Delete never, and the segment is
\* still Open and not among the committed ones.
C16_CommitFailureLeavesOpen ==
    (Returned("handleReplicate") /\ rep.closeErr) =>
        /\ rep.n > 0 /\ rep.fail = 0
        /\ rep.calls = <<"Create", "Close">>
        /\ FinalStatus(w) = StatusInternalServerError
        /\ \A i \in Writes(w) : w.out[i].data # Text("OK")
        /\ replicatedSegments = rep.preSegments
        /\ replicatedBytes = rep.preBytes
        /\ store[rep.segment].state = "Open"
        /\ Committed(store) = Committed(rep.preStore)

\* A push of two records whose Close failed has returned.
C16_Witness ==
    /\ Returned("handleReplicate")
    /\ rep.closeErr
    /\ rep.n = 2

C18_WriteFlushPerRecord ==
    (req.handler \in StreamHandlers /\ req.paramsOK /\ IsFlusher(w)
        /\ pc \in {"streamLoop", "ret", "idle"}) =>
        /\ Len(w.out) = 2 * Len(st.taken)
        /\ \A i \in 1..Len(st.taken) :
            /\ w.out[2 * i - 1] = [op |-> "write", data |-> RecordLine(st.taken[i])]
            /\ w.out[2 * i].op = "flush"

\* Two records with different keys, the greater first, were relayed.
C18_Witness ==
    /\ req.handler \in StreamHandlers
    /\ Len(st.taken) = 2
    /\ st.taken[1] > st.taken[2]
    /\ Len(w.out) = 4

\* C19: the task started by handleUserStream ends once the request context
\* is cancelled, also when it is waiting to hand over a record.
C19_ExecuteEndsAfterCancel ==
    (req.handler = "handleUserStream" /\ st.exec = "running" /\ st.ctxDone)
        ~> (st.exec = "stopped")

\* handleUserStream has returned while the task waits to hand over a record.
C19_Witness ==
    /\ req.handler = "handleUserStream"
    /\ pc \in {"ret", "idle"}
    /\ st.ctxDone
    /\ st.exec = "running"
    /\ st.offered

\* C20: the observation of a request carries the method and the path it
\* arrived with.
C20_ObservedUnderArrivedPath ==
    (pc = "idle" /\ req.entry = "ServeHTTP") =>
        /\ duration # <<>>
        /\ duration[Len(duration)].method = req.method
        /\ duration[Len(duration)].path = req.arrived

====
